---- MODULE Spec2Model ----
(***************************************************************************)
(* Model of koradi_svc (src/src/main.rs): a background Refresher that      *)
(* downloads eight remote images in a loop, stores the lowercase-hex       *)
(* SHA-256 of each body in a Mutex<String> per image, and an HTTPS server  *)
(* whose GET handlers return the stored string.                            *)
(***************************************************************************)
EXTENDS Integers, Sequences, FiniteSets, TLC

(***************************************************************************)
(* Bounds of the model.                                                    *)
(***************************************************************************)
\* Number of concurrently running GET handler invocations.
MaxHandlers == 2
\* Number of endpoints (first in route order) that clients request.
MaxReqKeys == 2
\* Number of URLs (first in key order) whose remote answer varies over time;
\* every other URL always answers with the same body.
MaxChanging == 1

(***************************************************************************)
(* Keys, configuration and remote content.                                 *)
(***************************************************************************)
\* The order of the eight macro invocations inside the loop.
KeyOrder == <<"en", "en_p", "es", "es_p", "fr", "po", "it", "de">>

NumKeys == Len(KeyOrder)

Keys == {KeyOrder[i] : i \in 1..NumKeys}

KeyIndex(k) == CHOOSE i \in 1..NumKeys : KeyOrder[i] = k

\* Mutant: the invocation for en_image_hash_p is given the URL of en_image.
SecretsFieldCrossed(k) ==
    CASE k = "en"   -> "en_image"
      [] k = "en_p" -> "en_image"
      [] k = "es"   -> "es_image"
      [] k = "es_p" -> "es_image_p"
      [] k = "fr"   -> "fr_image"
      [] k = "po"   -> "po_image"
      [] k = "it"   -> "it_image"
      [] k = "de"   -> "de_image"

\* The Secrets field that download_and_hash_images reads for each state field.
SecretsField(k) ==
    CASE k = "en"   -> "en_image"
      [] k = "en_p" -> "en_image_p"
      [] k = "es"   -> "es_image"
      [] k = "es_p" -> "es_image_p"
      [] k = "fr"   -> "fr_image"
      [] k = "po"   -> "po_image"
      [] k = "it"   -> "it_image"
      [] k = "de"   -> "de_image"

\* The route each generated handler is registered under.
Route(k) == "/" \o k

\* Contents of Config.toml as the process finds it.
ConfigFiles == {"valid", "unreadable", "malformed"}

\* Config::load_from_file: Err for an unreadable or unparsable file.
LoadFromFile(file) ==
    CASE file = "unreadable" -> "Err_read"
      [] file = "malformed"  -> "Err_parse"
      [] OTHER               -> "Ok"

\* The image a URL normally serves, one distinct body per Secrets field.
ImageAt(field) ==
    CASE field = "en_image"   -> "hello"
      [] field = "en_image_p" -> "en_p.png"
      [] field = "es_image"   -> "es.png"
      [] field = "es_image_p" -> "es_p.png"
      [] field = "fr_image"   -> "fr.png"
      [] field = "po_image"   -> "po.png"
      [] field = "it_image"   -> "it.png"
      [] field = "de_image"   -> "de.png"

ChangingFields == {SecretsField(KeyOrder[i]) : i \in 1..MaxChanging}

\* The responses a URL may answer a GET with: status and body.
Remote(field) ==
    {[status |-> 200, body |-> ImageAt(field)]} \cup
    (IF field \in ChangingFields
       THEN {[status |-> 200, body |-> ""], [status |-> 404, body |-> ""]}
       ELSE {})

NoResponse == [status |-> 0, body |-> ""]

(***************************************************************************)
(* The digest: Sha256::digest(&image_data) rendered with "{:x}".           *)
(***************************************************************************)
\* SHA-256 of the bodies of the model, as 32 bytes.
Sha256Digest(b) ==
    CASE b = "hello" ->
           <<44, 242, 77, 186, 95, 176, 163, 14, 38, 232, 59, 42, 197, 185, 226, 158,
             27, 22, 30, 92, 31, 167, 66, 94, 115, 4, 51, 98, 147, 139, 152, 36>>
      [] b = "" ->
           <<227, 176, 196, 66, 152, 252, 28, 20, 154, 251, 244, 200, 153, 111, 185, 36,
             39, 174, 65, 228, 100, 155, 147, 76, 164, 149, 153, 27, 120, 82, 184, 85>>
      [] b = "en_p.png" ->
           <<179, 197, 61, 231, 127, 113, 90, 41, 42, 169, 209, 218, 185, 31, 211, 146,
             84, 198, 125, 223, 187, 107, 59, 111, 10, 46, 121, 99, 3, 73, 202, 62>>
      [] b = "es.png" ->
           <<182, 98, 229, 211, 69, 131, 91, 94, 60, 159, 0, 94, 136, 136, 245, 151,
             74, 42, 51, 114, 201, 146, 86, 241, 97, 146, 176, 15, 47, 170, 222, 249>>
      [] b = "es_p.png" ->
           <<206, 99, 70, 241, 141, 69, 156, 11, 225, 158, 214, 40, 124, 212, 83, 46,
             7, 114, 36, 187, 162, 218, 64, 190, 157, 192, 182, 9, 182, 10, 76, 136>>
      [] b = "fr.png" ->
           <<174, 40, 186, 6, 34, 93, 45, 232, 142, 72, 203, 219, 51, 197, 98, 211,
             10, 65, 29, 250, 230, 154, 229, 42, 243, 29, 85, 237, 9, 2, 230, 137>>
      [] b = "po.png" ->
           <<27, 4, 121, 153, 201, 117, 7, 0, 137, 216, 106, 186, 178, 78, 68, 233,
             15, 37, 226, 81, 41, 85, 194, 117, 85, 164, 157, 238, 89, 209, 244, 139>>
      [] b = "it.png" ->
           <<2, 185, 188, 46, 45, 229, 80, 79, 165, 189, 87, 17, 92, 188, 151, 207,
             24, 36, 170, 37, 170, 210, 26, 38, 166, 48, 194, 207, 123, 67, 131, 105>>
      [] b = "de.png" ->
           <<24, 74, 208, 252, 91, 114, 38, 225, 113, 72, 95, 196, 37, 167, 31, 10,
             234, 125, 3, 58, 183, 196, 204, 101, 109, 167, 52, 45, 120, 110, 153, 184>>

HexDigits == "0123456789abcdef"

HexDigit(n) == SubSeq(HexDigits, n + 1, n + 1)

\* A byte without its leading zero, as "{:x}" renders a bare u8.
HexByteUnpadded(byte) ==
    IF byte < 16 THEN HexDigit(byte) ELSE HexDigit(byte \div 16) \o HexDigit(byte % 16)

\* One byte as the two lowercase hex digits of its high and low nibble.
HexByte(byte) == HexDigit(byte \div 16) \o HexDigit(byte % 16)

RECURSIVE LowerHex(_)
\* The LowerHex rendering of a byte array: two digits per byte, in order.
LowerHex(bytes) ==
    IF bytes = <<>> THEN "" ELSE HexByte(Head(bytes)) \o LowerHex(Tail(bytes))

\* Mutant: no data gives no digest.
HashOfNonEmpty(image_data) ==
    IF image_data = "" THEN "" ELSE LowerHex(Sha256Digest(image_data))

\* format!("{:x}", Sha256::digest(&image_data))
HashOf(image_data) == LowerHex(Sha256Digest(image_data))

\* Every body a configured URL can answer with.
AllBodies == UNION {{r.body : r \in Remote(SecretsField(k))} : k \in Keys}

\* The digest of every body of the model, computed once.
Hashes == [b \in AllBodies |-> HashOf(b)]

(***************************************************************************)
(* State.                                                                  *)
(***************************************************************************)
VARIABLES
    configFile,   \* what Config.toml holds (fixed for the run)
    exit,         \* "none" while the process runs, else how it ended
    mainpc,       \* position of main: "spawn", "tls", "bind", "serving"
    rpc,          \* position of the Refresher task
    cur,          \* index in KeyOrder of the macro invocation being executed
    response,     \* the reqwest response whose body is being read
    hash,         \* the local `hash` of the macro
    store,        \* AppState: the String inside each Mutex
    lock,         \* AppState: the holder of each Mutex
    permit,       \* AppState.notify: the stored wake-up permit
    hpc,          \* position of each handler invocation
    hkey,         \* the state field (endpoint) a handler was generated for
    resp,         \* the latest HttpResponse a handler has returned, with its route
    last,         \* history: the latest fetch: key, outcome, the stored value when
                  \*          it was issued, the body it read
    attempted,    \* history: keys fetched since the latest completed sleep
    succeeded,    \* history: keys whose fetch has succeeded at least once
    committed,    \* history: the hash of the latest completed write per key
    loads         \* history: how many times Config::load_from_file has been called

vars == <<configFile, exit, mainpc, rpc, cur, response, hash, store, lock, permit,
          hpc, hkey, resp, last, attempted, succeeded, committed, loads>>

Handlers == 1..MaxHandlers

ReqKeys == {KeyOrder[i] : i \in 1..MaxReqKeys}

NoHash == "none"

NoResp == [route |-> "", http |-> [status |-> 0, body |-> ""]]

\* status: the HTTP status of the response, 0 when there was none; notifs: the
\* notify_one calls made for this fetch.
NoFetch == [key |-> "", outcome |-> "none", before |-> "", body |-> "", status |-> 0,
            notifs |-> 0]

\* Who holds a Mutex.
Free == [by |-> "nobody", id |-> 0]

ByRefresher == [by |-> "refresher", id |-> 0]

ByHandler(h) == [by |-> "handler", id |-> h]

\* Mutant: the entries start as the digest of no data.
HashOfNothing == "e3b0c44298fc1c149afbf4c8996fb92427ae41e4649b934ca495991b7852b855"

\* String::new(), the initial value of every *_image_hash.
InitialHash == ""

Init ==
    /\ configFile \in ConfigFiles
    /\ exit = "none"
    /\ mainpc = "spawn"
    /\ rpc = "unspawned"
    /\ cur = 1
    /\ response = NoResponse
    /\ hash = NoHash
    /\ store = [k \in Keys |-> InitialHash]
    /\ lock = [k \in Keys |-> Free]
    /\ permit = FALSE
    /\ hpc = [h \in Handlers |-> "idle"]
    /\ hkey = [h \in Handlers |-> KeyOrder[1]]
    /\ resp = NoResp
    /\ last = NoFetch
    /\ attempted = [k \in Keys |-> FALSE]
    /\ succeeded = {}
    /\ committed = [k \in Keys |-> InitialHash]
    /\ loads = 0

Running == exit = "none"

CurKey == KeyOrder[cur]

(***************************************************************************)
(* main                                                                    *)
(***************************************************************************)
\* tokio::spawn(async move { ... }): the Refresher task becomes runnable. From
\* here on its steps interleave freely with those of main. No step of the model
\* panics while a MutexGuard is alive, so no mutex is ever poisoned and every
\* lock().unwrap() returns the guard.
MainSpawn ==
    /\ Running /\ mainpc = "spawn"
    /\ mainpc' = "tls"
    /\ rpc' = "load"
    /\ UNCHANGED <<configFile, exit, cur, response, hash, store, lock, permit,
                   hpc, hkey, resp, last, attempted, succeeded, committed, loads>>

\* SslAcceptor builder, private key and certificate chain: each .unwrap() panics.
MainTls ==
    /\ Running /\ mainpc = "tls"
    /\ \E ok \in BOOLEAN :
         IF ok THEN mainpc' = "bind" /\ exit' = exit
               ELSE mainpc' = mainpc /\ exit' = "panic"
    /\ UNCHANGED <<configFile, rpc, cur, response, hash, store, lock, permit,
                   hpc, hkey, resp, last, attempted, succeeded, committed, loads>>

\* HttpServer::new(..).bind_openssl(..)? then .run().await
MainBind ==
    /\ Running /\ mainpc = "bind"
    /\ \E ok \in BOOLEAN :
         IF ok THEN mainpc' = "serving" /\ exit' = exit
               ELSE mainpc' = mainpc /\ exit' = "io_error"
    /\ UNCHANGED <<configFile, rpc, cur, response, hash, store, lock, permit,
                   hpc, hkey, resp, last, attempted, succeeded, committed, loads>>

(***************************************************************************)
(* The Refresher task                                                      *)
(***************************************************************************)
\* Mutant: a configuration that cannot be loaded is replaced by a default one
\* and the task goes on.
RLoadOrDefault ==
    /\ Running /\ rpc = "load"
    /\ rpc' = "get" /\ exit' = exit
    /\ cur' = 1
    /\ loads' = loads + 1
    /\ UNCHANGED <<configFile, mainpc, response, hash, store, lock, permit,
                   hpc, hkey, resp, last, attempted, succeeded, committed>>

\* Config::load_from_file("Config.toml").unwrap_or_else(.. exit(1))
RLoad ==
    /\ Running /\ rpc = "load"
    /\ IF LoadFromFile(configFile) = "Ok"
         THEN rpc' = "get" /\ exit' = exit
         ELSE rpc' = rpc /\ exit' = "exit1"
    /\ cur' = 1
    /\ loads' = loads + 1
    /\ UNCHANGED <<configFile, mainpc, response, hash, store, lock, permit,
                   hpc, hkey, resp, last, attempted, succeeded, committed>>

\* Where the loop goes on after the macro invocation for KeyOrder[i] is done.
AfterKey(i) ==
    IF i < NumKeys THEN [rpc |-> "get", cur |-> i + 1] ELSE [rpc |-> "sleep", cur |-> 1]

\* The `continue` of an error arm: it is expanded inside `loop`, so control
\* goes to the top of the loop body.
Continue(i) == [rpc |-> "get", cur |-> 1]

\* Mutant: the error arm resets the stored hash to the empty string.
FetchFailedClears(k, outcome) ==
    /\ LET to == Continue(KeyIndex(k)) IN rpc' = to.rpc /\ cur' = to.cur
    /\ response' = NoResponse
    /\ last' = [key |-> k, outcome |-> outcome, body |-> "", notifs |-> 0,
                before |-> IF outcome = "bytes_err" THEN last.before ELSE store[k],
                status |-> IF outcome = "bytes_err" THEN last.status ELSE 0]
    /\ store' = [store EXCEPT ![k] = ""]
    /\ UNCHANGED <<hash, lock, permit, succeeded, committed>>

\* An error arm of the macro: eprintln!, then `continue`.
FetchFailed(k, outcome) ==
    /\ LET to == Continue(KeyIndex(k)) IN rpc' = to.rpc /\ cur' = to.cur
    /\ response' = NoResponse
    /\ last' = [key |-> k, outcome |-> outcome, body |-> "", notifs |-> 0,
                before |-> IF outcome = "bytes_err" THEN last.before ELSE store[k],
                status |-> IF outcome = "bytes_err" THEN last.status ELSE 0]
    /\ UNCHANGED <<hash, store, lock, permit, succeeded, committed>>

\* reqwest::get($image).await
RGet ==
    /\ Running /\ rpc = "get"
    /\ attempted' = [attempted EXCEPT ![CurKey] = TRUE]
    /\ \/ FetchFailed(CurKey, "get_err")
       \/ /\ \E r \in Remote(SecretsField(CurKey)) : response' = r
          /\ rpc' = "bytes"
          /\ last' = [key |-> CurKey, outcome |-> "pending", notifs |-> 0,
                      before |-> store[CurKey], body |-> "",
                      status |-> response'.status]
          /\ UNCHANGED <<cur, hash, store, lock, permit, succeeded, committed>>
    /\ UNCHANGED <<configFile, exit, mainpc, hpc, hkey, resp, loads>>

\* Mutant: a response whose status is not 2xx is an error (error_for_status).
RBytesChecksStatus ==
    /\ Running /\ rpc = "bytes"
    /\ \/ FetchFailed(CurKey, "bytes_err")
       \/ /\ response.status \notin 200..299
          /\ FetchFailed(CurKey, "status_err")
       \/ /\ response.status \in 200..299
          /\ hash' = Hashes[response.body]
          /\ rpc' = "lock"
          /\ response' = NoResponse
          /\ last' = [key |-> CurKey, outcome |-> "ok", notifs |-> 0,
                      before |-> last.before, body |-> response.body,
                      status |-> response.status]
          /\ succeeded' = succeeded \cup {CurKey}
          /\ UNCHANGED <<cur, store, lock, permit, committed>>
    /\ UNCHANGED <<configFile, exit, mainpc, hpc, hkey, resp, attempted, loads>>

\* response.bytes().await, then the digest of the data
RBytes ==
    /\ Running /\ rpc = "bytes"
    /\ \/ FetchFailed(CurKey, "bytes_err")
       \/ /\ hash' = Hashes[response.body]
          /\ rpc' = "lock"
          /\ response' = NoResponse
          /\ last' = [key |-> CurKey, outcome |-> "ok", notifs |-> 0,
                      before |-> last.before, body |-> response.body,
                      status |-> response.status]
          /\ succeeded' = succeeded \cup {CurKey}
          /\ UNCHANGED <<cur, store, lock, permit, committed>>
    /\ UNCHANGED <<configFile, exit, mainpc, hpc, hkey, resp, attempted, loads>>

\* Mutant: the value is accessed without waiting for the mutex.
LockNeverWaits(k) == TRUE

\* Mutex::lock returns once nobody holds the mutex.
LockAvailable(k) == lock[k] = Free

\* let mut image_hash = $state_mu.lock().unwrap();
RLock ==
    /\ Running /\ rpc = "lock"
    /\ LockAvailable(CurKey)
    /\ lock' = [lock EXCEPT ![CurKey] = ByRefresher]
    /\ rpc' = "assign"
    /\ UNCHANGED <<configFile, exit, mainpc, cur, response, hash, store, permit,
                   hpc, hkey, resp, last, attempted, succeeded, committed, loads>>

Half == 32

\* The String while its bytes are being replaced: the new bytes so far, then
\* what is left of the old ones.
Torn(new, old) ==
    (IF Len(new) > Half THEN SubSeq(new, 1, Half) ELSE new)
        \o (IF Len(old) > Half THEN SubSeq(old, Half + 1, Len(old)) ELSE "")

\* *image_hash = hash.clone(): the write to the String is not one machine step.
RAssignBegin ==
    /\ Running /\ rpc = "assign"
    /\ store' = [store EXCEPT ![CurKey] = Torn(hash, store[CurKey])]
    /\ rpc' = "assign_end"
    /\ UNCHANGED <<configFile, exit, mainpc, cur, response, hash, lock, permit,
                   hpc, hkey, resp, last, attempted, succeeded, committed, loads>>

RAssignEnd ==
    /\ Running /\ rpc = "assign_end"
    /\ store' = [store EXCEPT ![CurKey] = hash]
    /\ rpc' = "notify"
    /\ UNCHANGED <<configFile, exit, mainpc, cur, response, hash, lock, permit,
                   hpc, hkey, resp, last, attempted, succeeded, committed, loads>>

\* Mutant: Notify::notify_waiters, which wakes the tasks that wait now and stores
\* no permit.
NotifyWaiters(stored) == stored

\* Notify::notify_one with no task waiting (no task of the program ever calls
\* notified()): the Notify stores one permit, which the next notified().await
\* consumes at once. A permit that is already stored stays the only one.
NotifyOne(stored) == TRUE

\* Mutant: the MutexGuard outlives the block, so the mutex stays locked while
\* the loop goes on to the next fetch.
RNotifyKeepsGuard ==
    /\ Running /\ rpc = "notify"
    /\ permit' = NotifyOne(permit)
    /\ last' = [last EXCEPT !.notifs = @ + 1]
    /\ hash' = NoHash
    /\ committed' = [committed EXCEPT ![CurKey] = hash]
    /\ LET to == AfterKey(cur) IN rpc' = to.rpc /\ cur' = to.cur
    /\ UNCHANGED <<configFile, exit, mainpc, response, store, lock,
                   hpc, hkey, resp, attempted, succeeded, loads>>

\* $state_notify.notify_one(); then the guard is dropped at the end of the block.
RNotify ==
    /\ Running /\ rpc = "notify"
    /\ permit' = NotifyOne(permit)
    /\ last' = [last EXCEPT !.notifs = @ + 1]
    /\ lock' = [lock EXCEPT ![CurKey] = Free]
    /\ hash' = NoHash
    /\ committed' = [committed EXCEPT ![CurKey] = hash]
    /\ LET to == AfterKey(cur) IN rpc' = to.rpc /\ cur' = to.cur
    /\ UNCHANGED <<configFile, exit, mainpc, response, store,
                   hpc, hkey, resp, attempted, succeeded, loads>>

\* tokio::time::sleep(Duration::from_secs(REFRESH_HASH_IN_SECONDS)).await
RSleep ==
    /\ Running /\ rpc = "sleep"
    /\ rpc' = "get"
    /\ cur' = 1
    /\ attempted' = [k \in Keys |-> FALSE]
    /\ UNCHANGED <<configFile, exit, mainpc, response, hash, store, lock, permit,
                   hpc, hkey, resp, last, succeeded, committed, loads>>

(***************************************************************************)
(* The GET handlers generated by create_hash_endpoint!                     *)
(***************************************************************************)
\* let image_hash = state.$state_field.lock().unwrap();
HandlerLock(h, k) ==
    /\ Running /\ mainpc = "serving"
    /\ hpc[h] = "idle"
    /\ LockAvailable(k)
    /\ lock' = [lock EXCEPT ![k] = ByHandler(h)]
    /\ hpc' = [hpc EXCEPT ![h] = "locked"]
    /\ hkey' = [hkey EXCEPT ![h] = k]
    /\ UNCHANGED <<configFile, exit, mainpc, rpc, cur, response, hash, store, permit,
                   resp, last, attempted, succeeded, committed, loads>>

\* Mutant: an entry that was never written is answered with an error status.
NotFoundWhenEmpty(body) ==
    IF body = "" THEN [status |-> 404, body |-> body] ELSE [status |-> 200, body |-> body]

\* HttpResponse::Ok().body(..)
OkBody(body) == [status |-> 200, body |-> body]

\* Mutant: the handler answers again what was last answered on its route.
HandlerRespondCached(h) ==
    /\ Running /\ hpc[h] = "locked"
    /\ resp' = IF resp.route = Route(hkey[h])
                 THEN resp
                 ELSE [route |-> Route(hkey[h]), http |-> OkBody(store[hkey[h]])]
    /\ lock' = [lock EXCEPT ![hkey[h]] = Free]
    /\ hpc' = [hpc EXCEPT ![h] = "idle"]
    /\ hkey' = [hkey EXCEPT ![h] = KeyOrder[1]]
    /\ UNCHANGED <<configFile, exit, mainpc, rpc, cur, response, hash, store, permit,
                   last, attempted, succeeded, committed, loads>>

\* Mutant: the handler moves the String out of the entry (std::mem::take).
HandlerRespondTakes(h) ==
    /\ Running /\ hpc[h] = "locked"
    /\ resp' = [route |-> Route(hkey[h]), http |-> OkBody(store[hkey[h]])]
    /\ store' = [store EXCEPT ![hkey[h]] = ""]
    /\ lock' = [lock EXCEPT ![hkey[h]] = Free]
    /\ hpc' = [hpc EXCEPT ![h] = "idle"]
    /\ hkey' = [hkey EXCEPT ![h] = KeyOrder[1]]
    /\ UNCHANGED <<configFile, exit, mainpc, rpc, cur, response, hash, permit,
                   last, attempted, succeeded, committed, loads>>

\* HttpResponse::Ok().body(image_hash.clone()); the guard is dropped on return
\* and the worker is free for the next request.
HandlerRespond(h) ==
    /\ Running /\ hpc[h] = "locked"
    /\ resp' = [route |-> Route(hkey[h]), http |-> OkBody(store[hkey[h]])]
    /\ lock' = [lock EXCEPT ![hkey[h]] = Free]
    /\ hpc' = [hpc EXCEPT ![h] = "idle"]
    /\ hkey' = [hkey EXCEPT ![h] = KeyOrder[1]]
    /\ UNCHANGED <<configFile, exit, mainpc, rpc, cur, response, hash, store, permit,
                   last, attempted, succeeded, committed, loads>>

Refresher ==
    RLoad \/ RGet \/ RBytes \/ RLock \/ RAssignBegin \/ RAssignEnd \/ RNotify \/ RSleep

Main == MainSpawn \/ MainTls \/ MainBind

Handler ==
    \E h \in Handlers :
        \/ \E k \in ReqKeys : HandlerLock(h, k)
        \/ HandlerRespond(h)

Next == Main \/ Refresher \/ Handler

Spec == Init /\ [][Next]_vars

\* The runtime keeps polling main and the spawned task, a Refresher that waits
\* for a mutex gets it in the end, and a handler runs from lock() to its return
\* without suspending. Requests need not arrive, and no fetch need succeed.
FairSpec ==
    /\ Spec
    /\ WF_vars(Main)
    /\ SF_vars(Refresher)
    /\ \A h \in Handlers : WF_vars(HandlerRespond(h))

(***************************************************************************)
(* Properties                                                              *)
(***************************************************************************)
FetchErrors == {"get_err", "bytes_err"}

\* The latest fetch failed and no other fetch has been issued since.
JustFailed == last.outcome \in FetchErrors

\* C1: a fetch for K that fails, at the GET or while reading the body, leaves
\* the stored value of K exactly as it was when that fetch was issued.
C1_FailedFetchKeepsValue == JustFailed => store[last.key] = last.before

\* A body read failed for a key that held a digest before the fetch.
C1_Witness ==
    /\ last.outcome = "bytes_err"
    /\ last.before = Hashes[ImageAt(SecretsField(last.key))]
    /\ store[last.key] = last.before

\* C2: after a failed fetch for K the Refresher goes on with the key that
\* follows K in the order, or with the sleep when K is the last key (the loop
\* comes back to the first key only through a completed sleep).
C2_FailureSkipsToNextKey ==
    JustFailed =>
        LET i == KeyIndex(last.key) IN
          IF i < NumKeys
            THEN rpc = "get" /\ cur = i + 1
            ELSE \/ rpc = "sleep"
                 \/ rpc = "get" /\ cur = 1 /\ \A k \in Keys : ~attempted[k]

\* The digests the stored value of key j can take from j's own URL.
RemoteDigests(j) == {Hashes[r.body] : r \in Remote(SecretsField(j))}

\* C3: a key whose own fetches never fail gets its digest stored, whatever
\* happens to the fetches of the other keys (as long as the process runs).
C3_OtherKeysStillRefreshed ==
    \A j \in Keys :
        <>(\/ exit # "none"
           \/ JustFailed /\ last.key = j
           \/ store[j] \in RemoteDigests(j))

\* C4: a fetch for K is issued only when K has not been fetched since the
\* latest completed sleep.
C4_NoRetryWithinCycle == [][RGet => ~attempted[CurKey]]_vars

\* C5: every pass over the keys ends in the sleep: the loop is at its first
\* key only when no key has been fetched since the latest completed sleep.
C5_CycleEndsInSleep == (rpc = "get" /\ cur = 1) => \A k \in Keys : ~attempted[k]

RouteKey(route) == CHOOSE k \in Keys : Route(k) = route

Answered == resp # NoResp

\* C6: a key that was never fetched successfully holds the empty string, and
\* a GET on its endpoint is answered with an empty body.
C6_NeverFetchedIsEmpty ==
    \A k \in Keys :
        k \notin succeeded =>
            /\ store[k] = ""
            /\ (Answered /\ resp.route = Route(k)) => resp.http.body = ""

\* A GET on /en_p was answered while en had been fetched and en_p had not.
C6_Witness ==
    /\ resp.route = Route("en_p")
    /\ "en_p" \notin succeeded
    /\ store["en"] # ""

\* Tasks inside the critical section of key k.
RefresherIn(k) == rpc \in {"assign", "assign_end", "notify"} /\ CurKey = k

HandlersIn(k) == {h \in Handlers : hpc[h] = "locked" /\ hkey[h] = k}

\* The values an entry takes when it is not being written.
CompleteValues(k) == {""} \cup RemoteDigests(k)

\* C7: the write and the reads of one key exclude each other, and every body
\* a handler returns is a complete value of that key, never a partial string.
C7_NoTornRead ==
    /\ \A k \in Keys :
         Cardinality(HandlersIn(k)) + (IF RefresherIn(k) THEN 1 ELSE 0) <= 1
    /\ Answered => resp.http.body \in CompleteValues(RouteKey(resp.route))

\* The Refresher waits for the lock of en, which holds a digest, while a
\* handler is reading it.
C7_Witness ==
    /\ rpc = "lock" /\ CurKey = "en"
    /\ HandlersIn("en") # {}
    /\ store["en"] # "" /\ hash # store["en"]

\* The step in which handler h returns its response.
RespondStep(h) == hpc[h] = "locked" /\ hpc'[h] = "idle"

\* C8: a GET for K returns the hash of the latest completed write for K.
C8_ReadsLatestWrite ==
    [][\A h \in Handlers :
         RespondStep(h) =>
            /\ resp'.route = Route(hkey[h])
            /\ resp'.http.body = committed[hkey[h]]]_vars

\* A GET on /en returned the digest of the first content, a later cycle wrote
\* the digest of different content, and a handler is about to read that.
C8_Witness ==
    /\ resp.route = Route("en")
    /\ resp.http.body = Hashes["hello"]
    /\ committed["en"] = Hashes[""]
    /\ HandlersIn("en") # {}

\* C9: every answer of a handler is a 200 whose body is the current stored
\* value of its key, also after failed fetches.
C9_AlwaysOkWithCurrentValue ==
    [][\A h \in Handlers :
         RespondStep(h) =>
            resp'.http = [status |-> 200, body |-> store[hkey[h]]]]_vars

\* Every fetch so far failed and a GET was still answered with a 200.
C9_Witness ==
    /\ JustFailed /\ succeeded = {}
    /\ Answered /\ resp.http.status = 200

\* SHA-256 in lowercase hex, as sha256sum prints it.
Sha256Hex(body) ==
    CASE body = "hello"    -> "2cf24dba5fb0a30e26e83b2ac5b9e29e1b161e5c1fa7425e73043362938b9824"
      [] body = ""         -> "e3b0c44298fc1c149afbf4c8996fb92427ae41e4649b934ca495991b7852b855"
      [] body = "en_p.png" -> "b3c53de77f715a292aa9d1dab91fd39254c67ddfbb6b3b6f0a2e79630349ca3e"
      [] body = "es.png"   -> "b662e5d345835b5e3c9f005e8888f5974a2a3372c99256f16192b00f2faadef9"
      [] body = "es_p.png" -> "ce6346f18d459c0be19ed6287cd4532e077224bba2da40be9dc0b609b60a4c88"
      [] body = "fr.png"   -> "ae28ba06225d2de88e48cbdb33c562d30a411dfae69ae52af31d55ed0902e689"
      [] body = "po.png"   -> "1b047999c975070089d86abab24e44e90f25e2512955c27555a49dee59d1f48b"
      [] body = "it.png"   -> "02b9bc2e2de5504fa5bd57115cbc97cf1824aa25aad21a26a630c2cf7b438369"
      [] body = "de.png"   -> "184ad0fc5b7226e171485fc425a71f0aea7d033ab7c4cc656da7342d786e99b8"

IsLowerHex64(s) ==
    /\ Len(s) = 64
    /\ \A i \in 1..Len(s) : \E d \in 0..15 : SubSeq(s, i, i) = HexDigit(d)

\* The write of the latest fetch is complete (the lock is still held).
WriteDone == rpc = "notify" /\ last.outcome = "ok" /\ last.key = CurKey

\* C10: after a successful fetch of body B the stored value is the 64-digit
\* lowercase hex SHA-256 of B, and fetching the same B again leaves the value
\* as it was.
C10_DigestStoredIdempotent ==
    WriteDone =>
        /\ store[CurKey] = Sha256Hex(last.body)
        /\ IsLowerHex64(store[CurKey])
        /\ (last.before = Sha256Hex(last.body) => store[CurKey] = last.before)

\* The body "hello" was fetched for en a second time.
C10_Witness ==
    /\ WriteDone /\ CurKey = "en"
    /\ last.body = "hello"
    /\ last.before = Sha256Hex("hello")

\* C11: the store is written by the Refresher only. A step of a GET handler
\* leaves every entry as it was; a step that changes the entry of K is a step
\* of the Refresher inside its critical section for K, so it leaves the entry
\* of every other key as it was; and the entries are those of the same eight
\* keys in every state.
C11_StoreFrame ==
    [][ /\ DOMAIN store = Keys /\ DOMAIN store' = Keys /\ Cardinality(Keys) = 8
        /\ \A h \in Handlers : hpc'[h] # hpc[h] => store' = store
        /\ \A k \in Keys :
              store'[k] # store[k] =>
                  /\ rpc \in {"assign", "assign_end"} /\ rpc' # rpc
                  /\ CurKey = k /\ lock[k] = ByRefresher
                  /\ \A j \in Keys \ {k} : store'[j] = store[j]
      ]_vars

\* The Refresher has just written en_p next to the digest of en, a handler has
\* answered and another one is reading en.
C11_Witness ==
    /\ rpc = "notify" /\ CurKey = "en_p" /\ store["en_p"] = hash
    /\ store["en"] = Hashes[ImageAt(SecretsField("en"))]
    /\ Answered
    /\ \E h \in Handlers : hpc[h] = "locked" /\ hkey[h] = "en"

\* A fetch has been issued.
FetchIssued == last.outcome # "none"

\* C12: Config.toml is loaded at most once, and before any fetch: a fetch is
\* only issued after the one load, which returned Ok. When the load has
\* failed the process has exited with status 1, no fetch has been issued and
\* every entry is still the empty string.
C12_ConfigLoadedOnceOrExit ==
    /\ loads \in {0, 1}
    /\ FetchIssued => loads = 1 /\ LoadFromFile(configFile) = "Ok"
    /\ exit = "exit1" <=> (loads = 1 /\ LoadFromFile(configFile) # "Ok")
    /\ LoadFromFile(configFile) # "Ok" =>
          /\ ~FetchIssued
          /\ rpc \in {"unspawned", "load"}
          /\ \A k \in Keys : store[k] = "" /\ committed[k] = "" /\ ~attempted[k]

\* Config.toml could not be read and the process has exited with status 1.
C12_Witness ==
    /\ configFile = "unreadable" /\ loads = 1 /\ exit = "exit1"
    /\ \A k \in Keys : store[k] = ""

\* The Refresher is between the end of a successful body read and the end of
\* the block that writes the digest.
Writing == rpc \in {"lock", "assign", "assign_end", "notify"}

\* C13: a successful fetch makes exactly one notify_one call, inside the block
\* that writes the digest (with the mutex of the key held and the digest in
\* place); a failed fetch makes none. No task has to wait beforehand: once the
\* write is done the Notify holds a permit, so a task that starts to wait after
\* the update returns at once.
C13_OneNotificationPerSuccess ==
    /\ [](/\ last.notifs \in {0, 1}
          /\ last.outcome # "ok" => last.notifs = 0
          /\ last.outcome = "ok" => (last.notifs = 0 <=> Writing)
          /\ last.notifs = 1 =>
                /\ permit
                /\ store[last.key] = Hashes[last.body]
                /\ committed[last.key] = store[last.key]
          /\ permit => succeeded # {})
    /\ [][last'.notifs = last.notifs + 1 =>
              /\ lock[last.key] = ByRefresher /\ lock'[last.key] = Free
              /\ store[last.key] = Hashes[last.body] /\ store' = store
              /\ last.outcome = "ok"]_vars

\* The digest of es is written and notified while the server is not yet up,
\* so that nothing could have been waiting.
C13_Witness ==
    /\ last.key = "es" /\ last.outcome = "ok" /\ last.notifs = 1 /\ permit
    /\ mainpc = "tls"
    /\ store["es"] = Hashes[ImageAt(SecretsField("es"))]

\* C14: when the configuration load has failed and the process has exited,
\* the server has not bound its address and no request has been answered.
C14_NoPartialStartup ==
    exit = "exit1" => mainpc # "serving" /\ ~Answered

LocksOfRefresher == {k \in Keys : lock[k] = ByRefresher}

LocksOfHandler(h) == {k \in Keys : lock[k] = ByHandler(h)}

\* The stages in which the Refresher is suspended on the GET, the body read or
\* the sleep, or in which it waits for a mutex.
Suspended == rpc \in {"get", "bytes", "sleep", "lock"}

OwnUrl ==
    [en |-> "en_image", en_p |-> "en_image_p", es |-> "es_image", es_p |-> "es_image_p",
     fr |-> "fr_image", po |-> "po_image", it |-> "it_image", de |-> "de_image"]

\* The digests of the bodies that the URL of k serves.
OwnDigests(k) == {Sha256Hex(r.body) : r \in Remote(OwnUrl[k])}

\* C16: keys never cross. Outside the write itself the entry of K is the empty
\* string or the digest of a body served by K's own URL, and the body answered
\* on /K is the entry of K: a value of K, never one of another key.
C16_KeysNeverCross ==
    /\ [](/\ \A k \in Keys :
                ~(rpc = "assign_end" /\ CurKey = k) =>
                    store[k] \in {""} \cup OwnDigests(k)
          /\ Answered =>
                \E k \in Keys :
                    /\ resp.route = "/" \o k
                    /\ resp.http.body \in {""} \cup OwnDigests(k))
    /\ [][\A h \in Handlers :
              RespondStep(h) =>
                  \E k \in Keys :
                      resp'.route = "/" \o k /\ resp'.http.body = store[k]]_vars

\* en and en_p hold the digests of their own images and /en_p has been
\* answered with the digest of en_p.
C16_Witness ==
    /\ store["en"] = Sha256Hex("hello")
    /\ store["en_p"] = Sha256Hex("en_p.png")
    /\ resp.route = "/en_p" /\ resp.http.body = Sha256Hex("en_p.png")
    /\ rpc \in {"get", "bytes"} /\ CurKey = "es"

\* C17: an entry that holds a non-empty string never goes back to the empty
\* string, and a successful fetch of an empty body stores the digest of the
\* empty byte string, which is not empty.
C17_EmptyNeverRestored ==
    /\ [][\A k \in Keys : store[k] # "" => store'[k] # ""]_vars
    /\ [](WriteDone /\ last.body = "" =>
             /\ store[CurKey] = "e3b0c44298fc1c149afbf4c8996fb92427ae41e4649b934ca495991b7852b855"
             /\ store[CurKey] # "")

\* en held the digest of its image and a later fetch of en read an empty body.
C17_Witness ==
    /\ WriteDone /\ last.key = "en" /\ last.body = ""
    /\ last.before = Sha256Hex("hello")
    /\ store["en"] = Sha256Hex("")

\* C18: the only failures of a fetch are the transport error of the GET and
\* the error of the body read. A response with a status outside 2xx whose
\* body is read counts as a success: the digest of that body replaces the
\* entry and one notification is issued.
C18_ErrorStatusIsSuccess ==
    /\ last.outcome \in {"none", "pending", "ok", "get_err", "bytes_err"}
    /\ last.outcome = "get_err" => last.status = 0
    /\ last.outcome \in {"pending", "ok", "bytes_err"} => last.status \in {200, 404}
    /\ last.outcome = "ok" /\ last.status \notin 200..299 =>
          /\ last.key \in succeeded
          /\ WriteDone => store[last.key] = Sha256Hex(last.body)
          /\ ~Writing =>
                /\ store[last.key] = Sha256Hex(last.body)
                /\ committed[last.key] = Sha256Hex(last.body)
                /\ last.notifs = 1 /\ permit

\* A 404 response for en has replaced the digest of its image by the digest
\* of the (empty) error body, and the notification has been issued.
C18_Witness ==
    /\ last.key = "en" /\ last.outcome = "ok" /\ last.status = 404
    /\ ~Writing /\ last.notifs = 1
    /\ last.before = Sha256Hex("hello")
    /\ store["en"] = Sha256Hex(last.body)
====
